---- MODULE Spec2Model ----
(***************************************************************************)
(* Hand-shadow puppet: gesture classification (recognizeGesture), the      *)
(* confirmation smoothing and the hold timer of script.js.                 *)
(*                                                                         *)
(* Coordinates are MediaPipe's normalized [0,1] values in hundredths, so   *)
(* 0.05 is 5 and 0.08 is 8.  null is the string "none".                    *)
(***************************************************************************)
EXTENDS Integers, Sequences, FiniteSets

\* ---------------------------------------------------------------- bounds
MaxTime == 5000
TimeStep == 500
MaxCount == 5
MaxConfirmationFrames == 3

\* ------------------------------------------------------ program constants
HOLD_DURATION == 2000
CONFIRMATION_FRAMES == 1
buffer == 5
PinchDistance == 8
PointingDownMargin == 5

None == "none"

\* gestureHoldStart = null, as a time (null is 0 in arithmetic)
NullTime == -1

GESTURES ==
  [wolf      |-> [image |-> "ixp gestures/wolf1.PNG",
                  video |-> "ixp gestures/wolf move.mp4",
                  cssAnimation |-> FALSE],
   butterfly |-> [image |-> "ixp gestures/butterfly1.PNG",
                  video |-> "ixp gestures/butterfly move.mp4",
                  cssAnimation |-> FALSE],
   rabbit    |-> [image |-> "ixp gestures/rabbit1.PNG",
                  video |-> "ixp gestures/rabbit move.mp4",
                  cssAnimation |-> FALSE],
   elephant  |-> [image |-> "ixp gestures/elephant1.PNG",
                  video |-> "ixp gestures/elephant move.mp4",
                  cssAnimation |-> FALSE]]

\* ------------------------------------------------------------- landmarks
\* A hand is the 21-point landmark list; the joints the code never reads
\* and the middle joints sit at (50, 50).
MkHand(wristY, thumbY, indexX, indexY, middleY, ringY, pinkyY) ==
  [i \in 0..20 |->
     CASE i = 0  -> [x |-> 50, y |-> wristY]
       [] i = 4  -> [x |-> 50, y |-> thumbY]
       [] i = 8  -> [x |-> indexX, y |-> indexY]
       [] i = 12 -> [x |-> 50, y |-> middleY]
       [] i = 16 -> [x |-> 50, y |-> ringY]
       [] i = 20 -> [x |-> 50, y |-> pinkyY]
       [] OTHER  -> [x |-> 50, y |-> 50]]

TipYs == {40, 54, 55}
WristYs == {34, 50, 80}
IndexXs == {50, 57, 58}

Hands ==
  {MkHand(w, t, ix, iy, m, r, p) :
     w \in WristYs, t \in TipYs, ix \in IndexXs, iy \in TipYs,
     m \in TipYs, r \in TipYs, p \in TipYs}

\* results.multiHandLandmarks: no hand, or the list of detected hands
NoHand == << >>
AllResults == {NoHand} \cup {<<h>> : h \in Hands}

RabbitHand   == MkHand(80, 55, 58, 40, 40, 55, 55)
WolfHand     == MkHand(80, 55, 50, 55, 55, 55, 55)
ElephantHand == MkHand(34, 55, 58, 55, 55, 55, 55)
OpenHand     == MkHand(80, 40, 58, 40, 40, 40, 40)
FistHand     == MkHand(80, 55, 58, 55, 55, 55, 55)

FrameResults ==
  {NoHand, <<RabbitHand>>, <<WolfHand>>, <<ElephantHand>>, <<OpenHand>>,
   <<FistHand>>}

\* ------------------------------------------------------ feature extractor
getFingersState(landmarks) ==
  [thumb  |-> landmarks[4].y  < landmarks[3].y  + buffer,
   index  |-> landmarks[8].y  < landmarks[6].y  + buffer,
   middle |-> landmarks[12].y < landmarks[10].y + buffer,
   ring   |-> landmarks[16].y < landmarks[14].y + buffer,
   pinky  |-> landmarks[20].y < landmarks[18].y + buffer]

\* Square of the Euclidean distance; sqrt(d2) < 0.08 is d2 < 0.08^2
ThumbIndexDistance2(landmarks) ==
  LET dx == landmarks[4].x - landmarks[8].x
      dy == landmarks[4].y - landmarks[8].y
  IN  dx * dx + dy * dy

isPinch(landmarks) ==
  ThumbIndexDistance2(landmarks) < PinchDistance * PinchDistance

isHandPointingDown(landmarks) ==
  landmarks[12].y > landmarks[0].y + PointingDownMargin

\* ------------------------------------------------------------- classifier
\* handedness, getPalmOrientation and getHandShape are computed by the code
\* and never read, so they are left out.
recognizeGesture_peaceSign(landmarks) ==
  LET fingers == getFingersState(landmarks) IN
  IF fingers.index /\ fingers.middle THEN "peace"
  ELSE IF isPinch(landmarks) THEN "wolf"
  ELSE IF isHandPointingDown(landmarks) THEN "elephant"
  ELSE IF fingers.thumb /\ fingers.index /\ fingers.middle
          /\ fingers.ring /\ fingers.pinky THEN "butterfly"
  ELSE None

recognizeGesture_pinchFirst(landmarks) ==
  LET fingers == getFingersState(landmarks) IN
  IF isPinch(landmarks) THEN "wolf"
  ELSE IF fingers.index /\ fingers.middle THEN "rabbit"
  ELSE IF isHandPointingDown(landmarks) THEN "elephant"
  ELSE IF fingers.thumb /\ fingers.index /\ fingers.middle
          /\ fingers.ring /\ fingers.pinky THEN "butterfly"
  ELSE None

recognizeGesture(landmarks) ==
  LET fingers == getFingersState(landmarks) IN
  IF fingers.index /\ fingers.middle THEN "rabbit"
  ELSE IF isPinch(landmarks) THEN "wolf"
  ELSE IF isHandPointingDown(landmarks) THEN "elephant"
  ELSE IF fingers.thumb /\ fingers.index /\ fingers.middle
          /\ fingers.ring /\ fingers.pinky THEN "butterfly"
  ELSE None

\* The raw label of a frame: null when no hand is reported
RawLabel(res) ==
  IF Len(res) > 0 THEN recognizeGesture(res[1]) ELSE None

\* ------------------------------------------------------------------ state
VARIABLES
  pc,                   \* "received": results delivered, callback not run
                        \* "done": between frames
  results,              \* multiHandLandmarks of the latest frame
  detectedGesture,      \* raw label of the latest frame
  now,                  \* Date.now() of the latest frame
  confirmationFrames,   \* the configured confirmation threshold
  currentGesture,
  gestureHoldStart,
  isAnimationPlaying,
  lastDetectedGesture,
  gestureConfirmCount,
  commands,             \* render calls made by the latest frame, in order
  previousGesture,      \* currentGesture before the latest frame
  episodeStart,         \* time of the frame that last changed currentGesture
  steady,               \* every frame of the episode had the episode's label
  animationsIssued,     \* playPuppetAnimation calls in the episode
  runFromReset,         \* frames so far of a same-label run begun at reset
  script,               \* a scripted session: the frames to deliver
  played,               \* frames of the script delivered so far
  rendered,             \* render calls of the scripted session, with frame
  display,              \* classList of puppetImage and puppetVideo
  lastRender,           \* the most recent render call, NoRender before any
  loop,                 \* cameraLoop: "scheduled", "awaiting" or "stopped"
  inFlight,             \* hands.send calls not yet resolved
  passes                \* onHandResults runs during the pending send

vars == <<pc, results, detectedGesture, now, confirmationFrames,
          currentGesture, gestureHoldStart, isAnimationPlaying,
          lastDetectedGesture, gestureConfirmCount, commands,
          previousGesture,
          episodeStart, steady, animationsIssued, runFromReset,
          script, played, rendered, display, lastRender,
          loop, inFlight, passes>>

recorder == <<script, played, rendered>>

camera == <<loop, inFlight, passes>>

ShowStatic(g)    == [cmd |-> "showStatic", label |-> g]
PlayAnimation(g) == [cmd |-> "playAnimation", label |-> g]
HidePuppet       == [cmd |-> "hidePuppet", label |-> None]
\* No render call has been made yet
NoRender         == [cmd |-> "none", label |-> None]

\* ------------------------------------------------------------- stabilizer
AwaitsConfirmation_oneMore(gesture) ==
  IF gesture # lastDetectedGesture
    THEN TRUE
    ELSE gestureConfirmCount + 1 <= confirmationFrames

AwaitsConfirmation_countsFirst(gesture) ==
  (IF gesture # lastDetectedGesture THEN 1 ELSE gestureConfirmCount + 1)
    < confirmationFrames

\* The two early returns of handleGestureDetected
AwaitsConfirmation(gesture) ==
  IF gesture # lastDetectedGesture
    THEN TRUE
    ELSE gestureConfirmCount + 1 < confirmationFrames

NextConfirmCount(gesture) ==
  IF gesture # lastDetectedGesture THEN 1 ELSE gestureConfirmCount + 1

HoldElapsed_atLeast(t) ==
  t - (IF gestureHoldStart = NullTime THEN 0 ELSE gestureHoldStart)
    >= HOLD_DURATION

\* holdTime > HOLD_DURATION, with holdTime = Date.now() - gestureHoldStart
HoldElapsed(t) ==
  t - (IF gestureHoldStart = NullTime THEN 0 ELSE gestureHoldStart)
    > HOLD_DURATION

ShouldPlay_replays(t) == HoldElapsed(t)

ShouldPlay(t) == HoldElapsed(t) /\ ~isAnimationPlaying

NewHoldStart_keepsFirst(t) ==
  IF gestureHoldStart = NullTime THEN t ELSE gestureHoldStart

\* gestureHoldStart = Date.now()
NewHoldStart(t) == t

handleGestureDetected_reshows(gesture, t) ==
  /\ lastDetectedGesture' = gesture
  /\ gestureConfirmCount' = NextConfirmCount(gesture)
  /\ IF AwaitsConfirmation(gesture)
       THEN /\ UNCHANGED <<currentGesture, gestureHoldStart,
                           isAnimationPlaying>>
            /\ commands' = << >>
       ELSE /\ currentGesture' = gesture
            /\ gestureHoldStart' = NewHoldStart(t)
            /\ isAnimationPlaying' = FALSE
            /\ commands' = <<ShowStatic(gesture)>>

handleGestureDetected(gesture, t) ==
  /\ lastDetectedGesture' = gesture
  /\ gestureConfirmCount' = NextConfirmCount(gesture)
  /\ IF AwaitsConfirmation(gesture)
       THEN /\ UNCHANGED <<currentGesture, gestureHoldStart,
                           isAnimationPlaying>>
            /\ commands' = << >>
       ELSE IF gesture # currentGesture
         THEN /\ currentGesture' = gesture
              /\ gestureHoldStart' = NewHoldStart(t)
              /\ isAnimationPlaying' = FALSE
              /\ commands' = <<ShowStatic(gesture)>>
         ELSE IF ShouldPlay(t)
           THEN /\ isAnimationPlaying' = TRUE
                /\ commands' = <<PlayAnimation(gesture)>>
                /\ UNCHANGED <<currentGesture, gestureHoldStart>>
           ELSE /\ UNCHANGED <<currentGesture, gestureHoldStart,
                               isAnimationPlaying>>
                /\ commands' = << >>

handleNoGesture_keepsSmoothing ==
  /\ UNCHANGED <<lastDetectedGesture, gestureConfirmCount>>
  /\ IF currentGesture # None
       THEN /\ currentGesture' = None
            /\ gestureHoldStart' = NullTime
            /\ isAnimationPlaying' = FALSE
            /\ commands' = <<HidePuppet>>
       ELSE /\ UNCHANGED <<currentGesture, gestureHoldStart,
                           isAnimationPlaying>>
            /\ commands' = << >>

handleNoGesture_keepsHoldStart ==
  /\ lastDetectedGesture' = None
  /\ gestureConfirmCount' = 0
  /\ IF currentGesture # None
       THEN /\ currentGesture' = None
            /\ isAnimationPlaying' = FALSE
            /\ commands' = <<HidePuppet>>
            /\ UNCHANGED gestureHoldStart
       ELSE /\ UNCHANGED <<currentGesture, gestureHoldStart,
                           isAnimationPlaying>>
            /\ commands' = << >>

handleNoGesture_alwaysHides ==
  /\ lastDetectedGesture' = None
  /\ gestureConfirmCount' = 0
  /\ currentGesture' = None
  /\ gestureHoldStart' = NullTime
  /\ isAnimationPlaying' = FALSE
  /\ commands' = <<HidePuppet>>

handleNoGesture ==
  /\ lastDetectedGesture' = None
  /\ gestureConfirmCount' = 0
  /\ IF currentGesture # None
       THEN /\ currentGesture' = None
            /\ gestureHoldStart' = NullTime
            /\ isAnimationPlaying' = FALSE
            /\ commands' = <<HidePuppet>>
       ELSE /\ UNCHANGED <<currentGesture, gestureHoldStart,
                           isAnimationPlaying>>
            /\ commands' = << >>

\* ---------------------------------------------------------------- render
showPuppetImage_leavesVideo(d, gesture) ==
  [d EXCEPT !.imageHidden = FALSE]

\* puppetVideo hidden and paused, puppetImage shown
showPuppetImage(d, gesture) ==
  [imageHidden |-> FALSE, videoHidden |-> TRUE, videoPaused |-> TRUE]

\* The display part of playPuppetAnimation; isAnimationPlaying is set in
\* handleGestureDetected
playPuppetAnimation(d, gesture) ==
  IF GESTURES[gesture].cssAnimation
    THEN [imageHidden |-> FALSE, videoHidden |-> TRUE, videoPaused |-> TRUE]
    ELSE IF GESTURES[gesture].video # ""
      THEN [imageHidden |-> TRUE, videoHidden |-> FALSE,
            videoPaused |-> FALSE]
      ELSE d

hidePuppet(d) ==
  [imageHidden |-> TRUE, videoHidden |-> TRUE, videoPaused |-> TRUE]

ApplyRender(d, c) ==
  CASE c.cmd = "showStatic"    -> showPuppetImage(d, c.label)
    [] c.cmd = "playAnimation" -> playPuppetAnimation(d, c.label)
    [] c.cmd = "hidePuppet"    -> hidePuppet(d)

RECURSIVE ApplyAll(_, _)
ApplyAll(d, cmds) ==
  IF cmds = << >> THEN d
  ELSE ApplyAll(ApplyRender(d, Head(cmds)), Tail(cmds))

Render ==
  /\ display' = ApplyAll(display, commands')
  /\ lastRender' =
       IF commands' = << >> THEN lastRender ELSE commands'[Len(commands')]

\* What an observer of the frame records
PlaysIn(cmds) ==
  Cardinality({i \in 1..Len(cmds) : cmds[i].cmd = "playAnimation"})

Observe(res, t) ==
  /\ previousGesture' = currentGesture
  /\ episodeStart' =
       IF currentGesture' = None THEN NullTime
       ELSE IF currentGesture' # currentGesture THEN t
       ELSE episodeStart
  /\ steady' =
       IF currentGesture' = None \/ currentGesture' # currentGesture
         THEN TRUE
         ELSE steady /\ RawLabel(res) = currentGesture
  /\ animationsIssued' =
       IF currentGesture' # currentGesture THEN 0
       ELSE animationsIssued + PlaysIn(commands')
  /\ runFromReset' =
       IF RawLabel(res) = None THEN 0
       ELSE IF lastDetectedGesture = None /\ gestureConfirmCount = 0 THEN 1
       ELSE IF runFromReset > 0 /\ RawLabel(res) = detectedGesture
         THEN runFromReset + 1
       ELSE 0

\* onHandResults(results), run at time t
onHandResults(res, t) ==
  /\ results' = res
  /\ now' = t
  /\ detectedGesture' = RawLabel(res)
  /\ pc' = "done"
  /\ UNCHANGED confirmationFrames
  /\ IF RawLabel(res) # None
       THEN handleGestureDetected(RawLabel(res), t)
       ELSE handleNoGesture
  /\ Render
  /\ Observe(res, t)

\* ---------------------------------------------------------- specification
FrameGaps == {0, TimeStep, HOLD_DURATION}

\* The page's markup: both puppet elements start with class "hidden"
InitDisplay ==
  [imageHidden |-> TRUE, videoHidden |-> TRUE, videoPaused |-> TRUE]

InitCore ==
  /\ detectedGesture = None
  /\ now = 0
  /\ confirmationFrames \in CONFIRMATION_FRAMES..MaxConfirmationFrames
  /\ currentGesture = None
  /\ gestureHoldStart = NullTime
  /\ isAnimationPlaying = FALSE
  /\ lastDetectedGesture = None
  /\ gestureConfirmCount = 0
  /\ commands = << >>
  /\ previousGesture = None
  /\ episodeStart = NullTime
  /\ steady = TRUE
  /\ animationsIssued = 0
  /\ runFromReset = 0
  /\ played = 0
  /\ rendered = << >>
  /\ display = InitDisplay
  /\ lastRender = NoRender
  /\ loop = "scheduled"
  /\ inFlight = 0
  /\ passes = 0

Init ==
  /\ InitCore
  /\ pc = "done"
  /\ results = NoHand
  /\ script = << >>

\* One pass of the camera loop: the provider delivers a frame and the
\* callback runs to completion.
Frame ==
  /\ pc = "done"
  /\ \E res \in FrameResults, gap \in FrameGaps :
       /\ now + gap <= MaxTime
       /\ (RawLabel(res) # None /\ RawLabel(res) = lastDetectedGesture)
            => gestureConfirmCount < MaxCount
       /\ onHandResults(res, now + gap)
  /\ UNCHANGED recorder
  /\ UNCHANGED camera

Next == Frame

Spec == Init /\ [][Next]_vars

\* The classifier on every hand of the grid: the first frame of a session
InitClassify ==
  /\ InitCore
  /\ pc = "received"
  /\ results \in AllResults
  /\ script = << >>

FirstFrame ==
  /\ pc = "received"
  /\ onHandResults(results, now)
  /\ UNCHANGED recorder
  /\ UNCHANGED camera

NextClassify == FirstFrame

SpecClassify == InitClassify /\ [][NextClassify]_vars

\* A scripted session: none, four frames of one hand, none
ExampleScript(hand) == <<NoHand, <<hand>>, <<hand>>, <<hand>>, <<hand>>, NoHand>>

Scripts == {ExampleScript(res[1]) : res \in FrameResults \ {NoHand}}

InitScript ==
  /\ InitCore
  /\ pc = "done"
  /\ results = NoHand
  /\ script \in Scripts

Tagged(cmds, n) == [i \in 1..Len(cmds) |-> [frame |-> n, command |-> cmds[i]]]

ScriptFrame ==
  /\ pc = "done"
  /\ played < Len(script)
  /\ \E gap \in FrameGaps :
       /\ now + gap <= MaxTime
       /\ onHandResults(script[played + 1], now + gap)
  /\ played' = played + 1
  /\ rendered' = rendered \o Tagged(commands', played + 1)
  /\ UNCHANGED script
  /\ UNCHANGED camera

NextScript == ScriptFrame

SpecScript == InitScript /\ [][NextScript]_vars

\* ------------------------------------------------------------ camera loop
\* Everything onHandResults writes
core == <<pc, results, detectedGesture, now, confirmationFrames,
          currentGesture, gestureHoldStart, isAnimationPlaying,
          lastDetectedGesture, gestureConfirmCount, commands,
          previousGesture, episodeStart, steady, animationsIssued,
          runFromReset, display, lastRender>>

Send_noAwait ==
  /\ loop \in {"scheduled", "awaiting"}
  /\ loop' = "awaiting"
  /\ inFlight' = inFlight + 1
  /\ UNCHANGED passes
  /\ UNCHANGED core
  /\ UNCHANGED recorder

\* cameraLoop is entered, from init() or from requestAnimationFrame, and
\* calls hands.send
Send ==
  /\ loop = "scheduled"
  /\ loop' = "awaiting"
  /\ inFlight' = inFlight + 1
  /\ UNCHANGED passes
  /\ UNCHANGED core
  /\ UNCHANGED recorder

\* The provider calls the onResults callback, once for a pending send; the
\* callback runs to completion
Deliver ==
  /\ passes < inFlight
  /\ \E res \in FrameResults, gap \in FrameGaps :
       /\ now + gap <= MaxTime
       /\ (RawLabel(res) # None /\ RawLabel(res) = lastDetectedGesture)
            => gestureConfirmCount < MaxCount
       /\ onHandResults(res, now + gap)
  /\ passes' = passes + 1
  /\ UNCHANGED <<loop, inFlight>>
  /\ UNCHANGED recorder

\* hands.send resolves and cameraLoop asks for the next animation frame
Resolve ==
  /\ loop = "awaiting"
  /\ passes >= 1
  /\ inFlight' = inFlight - 1
  /\ passes' = passes - 1
  /\ loop' = "scheduled"
  /\ UNCHANGED core
  /\ UNCHANGED recorder

\* hands.send never resolves, or rejects: cameraLoop never reaches
\* requestAnimationFrame again and nothing else calls onHandResults
ProviderStops ==
  /\ loop = "awaiting"
  /\ loop' = "stopped"
  /\ UNCHANGED <<inFlight, passes>>
  /\ UNCHANGED core
  /\ UNCHANGED recorder

NextLoop == Send \/ Deliver \/ Resolve \/ ProviderStops

\* The browser keeps running the loop while the provider answers; nothing
\* obliges the provider to answer
SpecLoop ==
  /\ Init
  /\ [][NextLoop]_vars
  /\ WF_vars(Send)
  /\ WF_vars(Deliver)
  /\ WF_vars(Resolve)

\* ================================================================ claims
Labels == {"wolf", "butterfly", "rabbit", "elephant"}

Issued(c) == \E i \in 1..Len(commands) : commands[i] = c

HandSeen == pc = "done" /\ Len(results) > 0

AllFiveExtended(lm) ==
  LET fingers == getFingersState(lm) IN
  fingers.thumb /\ fingers.index /\ fingers.middle /\ fingers.ring
    /\ fingers.pinky

\* C2: a hand with all five fingers extended that triggers neither the
\* pinch rule nor the pointing-down rule is classified as butterfly.
C2_ButterflyAttainable ==
  (HandSeen /\ AllFiveExtended(results[1]) /\ ~isPinch(results[1])
     /\ ~isHandPointingDown(results[1]))
    => detectedGesture = "butterfly"

\* C3: with a threshold K >= 2, a run of same-label frames that starts in
\* the reset state changes currentGesture to the label on its K-th frame
\* (showStatic issued in that frame) and on no earlier frame.
C3_ConfirmedOnKthFrame ==
  (confirmationFrames >= 2 /\ runFromReset > 0) =>
    /\ runFromReset < confirmationFrames =>
         (currentGesture = None /\ commands = << >>)
    /\ runFromReset = confirmationFrames =>
         (currentGesture = detectedGesture
            /\ commands = <<ShowStatic(detectedGesture)>>)
    /\ runFromReset > confirmationFrames =>
         (currentGesture = detectedGesture
            /\ ~Issued(ShowStatic(detectedGesture)))

\* The fourth frame of the example: K = 3, wolf confirmed one frame ago
C3_Witness ==
  /\ confirmationFrames = 3
  /\ runFromReset = 4
  /\ detectedGesture = "wolf"
  /\ currentGesture = "wolf"

\* C4: with the threshold at CONFIRMATION_FRAMES = 1, the first frame whose
\* non-none raw label L differs from lastDetectedGesture makes L the
\* stabilized gesture in that same frame.
C4_ImmediateConfirmation ==
  [][(/\ confirmationFrames = CONFIRMATION_FRAMES
      /\ detectedGesture' # None
      /\ detectedGesture' # lastDetectedGesture)
       => (/\ currentGesture' = detectedGesture'
           /\ (currentGesture # detectedGesture'
                 => commands' = <<ShowStatic(detectedGesture')>>))]_vars

\* C5: one frame with no hand, or with raw label none, leaves
\* currentGesture, gestureHoldStart and lastDetectedGesture none,
\* isAnimationPlaying false and gestureConfirmCount 0, and issues
\* hidePuppet if a gesture was confirmed before the frame.
C5_ImmediateDisappearance ==
  [][detectedGesture' = None
       => (/\ currentGesture' = None
           /\ gestureHoldStart' = NullTime
           /\ isAnimationPlaying' = FALSE
           /\ lastDetectedGesture' = None
           /\ gestureConfirmCount' = 0
           /\ (currentGesture # None => commands' = <<HidePuppet>>))]_vars

\* A hand with no recognizable gesture hid a confirmed puppet while the
\* threshold was 3
C5_Witness ==
  /\ confirmationFrames = 3
  /\ results = <<FistHand>>
  /\ detectedGesture = None
  /\ commands = <<HidePuppet>>
  /\ currentGesture = None
  /\ gestureConfirmCount = 0

\* C6: within one hold episode playAnimation is issued at most once, and
\* exactly once when frames of the label keep arriving past HOLD_DURATION.
C6_OneAnimationPerEpisode ==
  /\ animationsIssued <= 1
  /\ PlaysIn(commands) <= 1
  /\ (currentGesture # None /\ steady
        /\ now - episodeStart > HOLD_DURATION) => animationsIssued = 1

\* Held 2500 ms: the animation was issued in an earlier frame, and the
\* latest frame of the same label issued nothing
C6_Witness ==
  /\ currentGesture = "elephant"
  /\ steady
  /\ now - episodeStart = 2500
  /\ animationsIssued = 1
  /\ commands = << >>

\* C7: while currentGesture stays L from T0, the phase is Static after every
\* frame at a time in [T0, T0 + HOLD_DURATION) and Animating after every
\* frame at a time later than T0 + HOLD_DURATION, whatever the raw labels.
C7_PresentationTiming ==
  currentGesture # None =>
    /\ now - episodeStart < HOLD_DURATION => ~isAnimationPlaying
    /\ now - episodeStart > HOLD_DURATION => isAnimationPlaying

\* C8: a change of the confirmed label from A straight to B sets
\* currentGesture = B and gestureHoldStart to the frame's time, clears
\* isAnimationPlaying and issues only showStatic(B); playAnimation is only
\* issued more than HOLD_DURATION after the frame that confirmed the label.
C8_DirectLabelChange ==
  [][/\ (currentGesture # None /\ currentGesture' # None
           /\ currentGesture' # currentGesture)
          => (/\ currentGesture' = detectedGesture'
              /\ gestureHoldStart' = now'
              /\ isAnimationPlaying' = FALSE
              /\ commands' = <<ShowStatic(currentGesture')>>)
     /\ (\E i \in 1..Len(commands') : commands'[i].cmd = "playAnimation")
          => (/\ episodeStart' # NullTime
              /\ now' - episodeStart' > HOLD_DURATION)]_vars

\* Wolf has just replaced a rabbit that had been shown since an earlier time
C8_Witness ==
  /\ previousGesture = "rabbit"
  /\ currentGesture = "wolf"
  /\ commands = <<ShowStatic("wolf")>>
  /\ gestureHoldStart = now
  /\ now >= TimeStep

\* C9: currentGesture is none or a key of GESTURES, every label the
\* classifier can return has an entry with one image and one video, and the
\* render functions are only called with labels of the table.
C9_LabelsHaveAssets ==
  /\ currentGesture \in {None} \cup DOMAIN GESTURES
  /\ detectedGesture \in {None} \cup DOMAIN GESTURES
  /\ \A g \in Labels :
       /\ g \in DOMAIN GESTURES
       /\ {"image", "video"} \subseteq DOMAIN GESTURES[g]
  /\ \A i \in 1..Len(commands) :
       commands[i].cmd \in {"showStatic", "playAnimation"}
         => commands[i].label \in DOMAIN GESTURES

\* showPuppetImage was called with a label of the table
C9_Witness ==
  /\ Issued(ShowStatic("rabbit"))
  /\ currentGesture = "rabbit"

WolfScript == ExampleScript(WolfHand)

ScriptDone == script = WolfScript /\ confirmationFrames = 3 /\ played = 6

C11_StoppedProviderHides ==
  (loop = "stopped" /\ currentGesture # None)
    ~> (currentGesture = None /\ lastRender = HidePuppet)

\* C12: cameraLoop submits a frame only when no hands.send is pending, so at
\* most one frame is in flight, and the stabilizer and puppet state change
\* only in the one onHandResults pass of the pending frame.
C12_NoOverlap ==
  [][/\ inFlight' <= 1
     /\ passes' <= 1
     /\ inFlight' > inFlight => (inFlight = 0 /\ passes = 0)
     /\ core' # core
          => (inFlight = 1 /\ passes = 0 /\ passes' = 1
                /\ inFlight' = 1)]_vars

\* A later frame's pass has run while its send is still pending
C12_Witness ==
  /\ inFlight = 1
  /\ passes = 1
  /\ loop = "awaiting"
  /\ currentGesture = "wolf"
  /\ isAnimationPlaying

\* C13: once L is the stabilized gesture, a further frame with raw label L
\* leaves currentGesture = L and gestureHoldStart unchanged and issues no
\* showStatic; it issues nothing, or the one playAnimation(L) after the hold
\* duration when no animation is playing yet.
C13_RepeatsChangeNothing ==
  [][(currentGesture # None /\ detectedGesture' = currentGesture)
       => (/\ currentGesture' = currentGesture
           /\ gestureHoldStart' = gestureHoldStart
           /\ commands' \in {<< >>, <<PlayAnimation(currentGesture)>>}
           /\ commands' = << >>
                => (isAnimationPlaying' = isAnimationPlaying
                      /\ display' = display)
           /\ commands' # << >>
                => (/\ ~isAnimationPlaying
                    /\ isAnimationPlaying'
                    /\ now' - gestureHoldStart > HOLD_DURATION))]_vars

\* A repeat of the stabilized label arrived while its animation was playing
C13_Witness ==
  /\ currentGesture = "rabbit"
  /\ previousGesture = "rabbit"
  /\ detectedGesture = "rabbit"
  /\ animationsIssued = 1
  /\ isAnimationPlaying
  /\ commands = << >>

C15_RenderOnlyOnChange ==
  [][\A i \in 1..Len(commands') :
       /\ commands'[i].cmd = "hidePuppet"
            => (/\ currentGesture # None
                /\ currentGesture' = None
                /\ lastRender.cmd \in {"showStatic", "playAnimation"})
       /\ commands'[i].cmd = "showStatic"
            => (/\ currentGesture # commands'[i].label
                /\ currentGesture' = commands'[i].label)]_vars

\* A second hidePuppet of the session, after a showStatic in between
C15_Witness ==
  /\ commands = <<HidePuppet>>
  /\ previousGesture = "elephant"
  /\ currentGesture = None
  /\ now >= TimeStep

\* C16: between frames, currentGesture is none iff gestureHoldStart is none,
\* isAnimationPlaying implies currentGesture non-none, lastDetectedGesture is
\* none iff gestureConfirmCount = 0, and currentGesture non-none implies
\* lastDetectedGesture non-none.
C16_StateInvariants ==
  /\ (currentGesture = None) <=> (gestureHoldStart = NullTime)
  /\ isAnimationPlaying => currentGesture # None
  /\ (lastDetectedGesture = None) <=> (gestureConfirmCount = 0)
  /\ currentGesture # None => lastDetectedGesture # None

\* Idle again after a gesture had been shown
C16_Witness ==
  /\ currentGesture = None
  /\ previousGesture = "wolf"
  /\ lastRender = HidePuppet
  /\ gestureHoldStart = NullTime
  /\ now > HOLD_DURATION

\* C17: playAnimation(L) is issued only for L = currentGesture, alone in its
\* frame, when the last render call before the frame was showStatic(L), and
\* when the frame's time minus gestureHoldStart exceeds HOLD_DURATION.
C17_PlayAfterShowAndHold ==
  [][\A i \in 1..Len(commands') :
       commands'[i].cmd = "playAnimation"
         => (/\ commands' = <<PlayAnimation(currentGesture')>>
             /\ currentGesture' # None
             /\ currentGesture' = currentGesture
             /\ lastRender = ShowStatic(currentGesture)
             /\ gestureHoldStart' = gestureHoldStart
             /\ now' - gestureHoldStart > HOLD_DURATION)]_vars

\* The animation was issued 2500 ms into the hold, the frame at exactly
\* HOLD_DURATION not having issued it
C17_Witness ==
  /\ commands = <<PlayAnimation("elephant")>>
  /\ currentGesture = "elephant"
  /\ now - gestureHoldStart = HOLD_DURATION + TimeStep

\* C18: with both elements hidden at the start, the image and the video are
\* never visible together, the image is visible exactly when currentGesture
\* is non-none and isAnimationPlaying is false, the video exactly when
\* isAnimationPlaying is true, and both are hidden when currentGesture is
\* none.
C18_DisplayMatchesState ==
  /\ ~(~display.imageHidden /\ ~display.videoHidden)
  /\ ~display.imageHidden <=> (currentGesture # None /\ ~isAnimationPlaying)
  /\ ~display.videoHidden <=> isAnimationPlaying
  /\ currentGesture = None => (display.imageHidden /\ display.videoHidden)

\* A new label's image replaced the puppet of the label shown before
C18_Witness ==
  /\ lastRender = ShowStatic("rabbit")
  /\ previousGesture = "wolf"
  /\ now > HOLD_DURATION
  /\ ~display.imageHidden
  /\ display.videoHidden

====
